---- MODULE Spec2Model ----
(***************************************************************************)
(* butil::DoublyBufferedData<T, TLS> (doubly_buffered_data.h) as a state   *)
(* machine.  T is the two-field struct of the demo program (DbdTest:       *)
(* _index, _body); a writer function stores the two fields one after the   *)
(* other, so a slot can be seen half written.  Threads interleave at the   *)
(* granularity of one shared-memory access or one mutex operation.         *)
(* The defer helpers of the Defer program (DeferHelper, DeferHelperFifo)   *)
(* are modelled beside it as one scope that registers functions and exits. *)
(***************************************************************************)
EXTENDS Integers, Sequences, FiniteSets, TLC

\* ------------------------------------------------------------------ bounds
NThreads == 2       \* threads that read, write and exit
MaxModify == 2      \* Modify calls per run (also the largest version written)
MaxRet == 1         \* fn returns a size_t in 0..MaxRet
MaxTls == 2         \* tls() += 1 per thread; also the largest stale TLS value
MaxDefer == 3       \* functions deferred in one scope
MaxBody == 2        \* other statements in the body of that scope

Threads == 1..NThreads
AllThreads == 0..NThreads
\* the thread outside Threads: it only calls Modify, and only in SpecWriter
Writer == CHOOSE t \in AllThreads : t \notin Threads
WrapperIds == 1..NThreads   \* heap cells available for Wrapper objects
Rets == 0..MaxRet
\* what the int _user_tls of a newly allocated Wrapper may hold
TlsVals == 0..MaxTls
\* the functions a scope may defer, each named by a number
Fns == 1..MaxDefer
\* the thread whose successive Reads are recorded (the threads are alike)
Observer == CHOOSE t \in Threads : \A u \in Threads : t <= u

VARIABLES
    data,            \* T _data[2]: slot i is data[i], a DbdTest record
    index,           \* atomic<int> _index
    created_key,     \* bool _created_key
    wrappers,        \* std::vector<Wrapper*> _wrappers
    wrappers_mutex,  \* pthread_mutex_t _wrappers_mutex: 0 free, else holder + 1
    modify_mutex,    \* pthread_mutex_t _modify_mutex: 0 free, else holder + 1
    walive,          \* Wrapper objects currently allocated
    wmutex,          \* Wrapper::_mutex of each wrapper: 0 free, else holder + 1
    tlsw,            \* pthread_getspecific(_wrapper_key) of each thread, 0 = NULL
    pc,              \* where each thread is
    ptr,             \* each thread's ScopedPtr: [data, w], data = -1 is NULL
    w_loc,           \* local Wrapper* w of Read / AddWrapper
    fn_arg,          \* the value that the thread's fn stores
    bg_index,        \* local int bg_index of Modify
    ret,             \* local size_t ret of Modify
    drain_i,         \* loop variable i of Modify's drain (1-based)
    rv,              \* value being returned by Modify
    nver,            \* history: Modify calls that passed the writer lock
    pubBy,           \* history: version stored by the last Modify that published
    lastDone,        \* history: version of the last published Modify that returned
    lastObs,         \* history: version the Observer saw in its previous Read
    hist,            \* history of the Modify that holds the writer lock
    user_tls,        \* TLS _user_tls of each Wrapper (the heap cell's content)
    cycles,          \* history: tls() += 1 performed by each thread
    shut,            \* ~DoublyBufferedData: its progress and what it freed
    scope            \* a function body that uses defer or defer_fifo

vars == <<data, index, created_key, wrappers, wrappers_mutex, modify_mutex,
          walive, wmutex, tlsw, pc, ptr, w_loc, fn_arg, bg_index, ret,
          drain_i, rv, nver, pubBy, lastDone, lastObs, hist, user_tls,
          cycles, shut, scope>>

\* ----------------------------------------------------------------- helpers
\* T(): DbdTest with _index = 0 and an empty _body
DefaultT == [index |-> 0, body |-> 0]

\* ScopedPtr() : _data(NULL), _w(NULL)
NullPtr == [data |-> -1, w |-> 0]

\* idx, fg: _index and the foreground slot when the writer lock was taken;
\* calls: fn invocations; stores: stores to _index; reglocks: acquisitions of
\* _wrappers_mutex; drained: wrappers whose mutex the running drain has
\* locked and unlocked; waits: how many it locked in all; missed: wrappers
\* of the registry that the finished drain did not lock and unlock exactly
\* once; ret2: fn's second return value; diag: the std::cerr line of Modify
\* was written; others: the slot passed as second argument by a WithFG0
\* closure in each invocation; eq: the two slots were equal when a
\* ModifyWithForeground took the writer lock; fread: the invocation of fn
\* (1 or 2) in which fn last obtained a guard from Read on this container
NoHist == [idx |-> -1, fg |-> DefaultT, calls |-> 0, stores |-> 0,
           reglocks |-> 0, drained |-> <<>>, waits |-> 0, missed |-> {},
           ret2 |-> 0, diag |-> FALSE, others |-> <<>>, eq |-> FALSE,
           fread |-> 0]

\* The container before its destructor runs.  st: "alive", "loop" (inside the
\* destructor's locked scope) or "done"; i: the destructor's loop variable
\* (1-based); reenter: RemoveWrapper calls made by the destructor's deletes;
\* badfree: deletes of a Wrapper that was not allocated
Alive == [st |-> "alive", i |-> 0, reenter |-> 0, badfree |-> 0]

\* No scope is being run.  kind: "lifo" for a body that uses defer, "fifo"
\* for one that begins with use_defer_fifo(); phase: "body", "exit" (the
\* locals are being destroyed) or "done"; helpers: the functions held by
\* the DeferHelper locals alive, in construction order, or m_funcs of
\* DEFER_FIFO; i: the position of ~DeferHelperFifo's loop; reg: the
\* functions in registration order; out: what has run so far, in order,
\* with 0 for a statement of the body
NoScope == [kind |-> "none", phase |-> "done", helpers |-> <<>>, i |-> 0,
            reg |-> <<>>, out |-> <<>>]

\* The scope has just been entered (and DEFER_FIFO constructed, if any)
NewScope(k) == [NoScope EXCEPT !.kind = k, !.phase = "body"]

\* a scope that destroys its oldest local first
DestroyedFirstOldest(n) == IF n = 0 THEN 0 ELSE 1

\* Of n locals alive at scope exit, constructed in order 1..n, the one
\* destroyed first is the one constructed last
DestroyedFirst(n) == n

\* an add_func that puts the function in front
PushFront(s, f) == <<f>> \o s

\* m_funcs.push_back(std::move(func))
PushBack(s, f) == Append(s, f)

\* s without its k-th element
Without(s, k) == SubSeq(s, 1, k - 1) \o SubSeq(s, k + 1, Len(s))

Count(s, w) == Cardinality({k \in 1..Len(s) : s[k] = w})

\* a lock that never excludes anybody
CanLockAlways(m) == TRUE

\* pthread_mutex_lock returns once the mutex is free
CanLock(m) == m = 0

\* The value a mutex variable holds while thread t owns it
Held(t) == t + 1

\* a Read that goes on without a key
KeyMissingIgnored(k) == FALSE

\* if (BAIDU_UNLIKELY(!_created_key)) return -1
KeyMissing(k) == ~k

\* a destructor that leaves the back-pointer in place
DetachNot(c) == c

\* _wrappers[i]->_control = NULL: the back-pointer is no longer set
Detach(c) == FALSE

\* pthread_key_delete(_wrapper_key) has run: thread exit calls no destructor
\* for the key's values any more
KeyDeleted(st) == st # "alive"

\* the owner of _wrappers_mutex while the container's destructor holds it
DtorHolder == Held(NThreads + 1)

\* an unlock that leaves the mutex with its owner
ReleasedNot(m) == m

\* pthread_mutex_unlock: the mutex is free again
Released(m) == 0

\* a reader that takes the other slot
UnsafeReadBackground == 1 - index

\* UnsafeRead: _data + _index.load(acquire); the slot is named by its index
UnsafeRead == index

\* a writer that picks the foreground slot as its first target
BgIndexOfSame(i) == i

\* int bg_index = !_index.load(relaxed)
BgIndexOf(i) == 1 - i

\* a writer that forgets to switch to the former foreground
FlipNot(b) == b

\* bg_index = !bg_index
Flip(b) == 1 - b

\* a writer that publishes whatever fn returned
EarlyExitNever(r) == FALSE

\* if (!ret) return 0
EarlyExit(r) == r = 0

\* a drain loop that stops one wrapper early
DrainMoreOffByOne(i, n) == i < n

\* the drain loop's test i < _wrappers.size(), with i counted from 1
DrainMore(i, n) == i <= n

\* a closure that passes the written slot itself as the other one
OtherOfSame(b) == b

\* WithFG0::operator(): the second argument is _data[&bg == _data], where bg
\* is _data[b]
OtherOf(b) == IF b = 0 THEN 1 ELSE 0

\* if (ret2 == ret) std::cerr << "Modify index=" ...
Diagnostic(r1, r2) == r2 = r1

\* a Modify that returns fn's first result
ModifyResultFirst(r1, r2) == r1

\* return ret2
ModifyResult(r1, r2) == r2

\* new (std::nothrow) Wrapper: the lowest free heap cell, 0 when none is left
NewWrapper == IF walive = WrapperIds THEN 0
              ELSE CHOOSE w \in WrapperIds \ walive :
                       \A x \in WrapperIds \ walive : w <= x

\* a removal that drops the oldest registration instead of w
RemoveFromFront(s, w) == IF s = <<>> THEN s ELSE Tail(s)

\* RemoveWrapper's loop: the last element takes the place of w, then pop_back
RemoveFrom(s, w) ==
    IF \E k \in 1..Len(s) : s[k] = w
    THEN LET k == CHOOSE j \in 1..Len(s) :
                      s[j] = w /\ \A h \in 1..(j - 1) : s[h] # w
             moved == [s EXCEPT ![k] = s[Len(s)]]
         IN SubSeq(moved, 1, Len(s) - 1)
    ELSE s

\* ------------------------------------------------------------------- Init
\* DoublyBufferedData(): _index(0), _created_key set by pthread_key_create,
\* both slots T(); no thread has touched the container
InitContainer ==
    /\ data = [i \in 0..1 |-> DefaultT]
    /\ index = 0
    /\ created_key \in BOOLEAN
    /\ wrappers = <<>>
    /\ wrappers_mutex = 0
    /\ modify_mutex = 0
    /\ walive = {}
    /\ wmutex = [w \in WrapperIds |-> 0]
    /\ tlsw = [t \in AllThreads |-> 0]
    /\ pc = [t \in AllThreads |-> "idle"]
    /\ ptr = [t \in AllThreads |-> NullPtr]
    /\ w_loc = [t \in AllThreads |-> 0]
    /\ fn_arg = [t \in AllThreads |-> 0]
    /\ bg_index = [t \in AllThreads |-> 0]
    /\ ret = [t \in AllThreads |-> 0]
    /\ drain_i = [t \in AllThreads |-> 0]
    /\ rv = [t \in AllThreads |-> 0]
    /\ nver = 0
    /\ pubBy = 0
    /\ lastDone = 0
    /\ lastObs = 0
    /\ hist = NoHist
    /\ user_tls = [w \in WrapperIds |-> 0]
    /\ cycles = [t \in AllThreads |-> 0]
    /\ shut = Alive

Init == InitContainer /\ scope = NoScope

slotVars == <<data, index, created_key>>
lockVars == <<wrappers_mutex, modify_mutex>>
registryVars == <<wrappers, walive, wmutex, tlsw>>
readerVars == <<ptr, w_loc, lastObs>>
writerVars == <<fn_arg, bg_index, ret, drain_i, rv>>
historyVars == <<nver, pubBy, lastDone, hist>>
auxVars == <<user_tls, cycles, shut, scope>>
containerVars == <<slotVars, lockVars, registryVars, readerVars, pc,
                   writerVars, historyVars, user_tls, cycles, shut>>

\* ------------------------------------------------------------------- Read
\* Read up to its first blocking call: the key check, pthread_getspecific,
\* and for a first Read the allocation in AddWrapper
ReadCall(t) ==
    /\ pc[t] = "idle"
    /\ shut.st = "alive"
    /\ IF KeyMissing(created_key)
       THEN /\ pc' = [pc EXCEPT ![t] = "r_fail"]
            /\ UNCHANGED <<walive, w_loc>>
       ELSE IF tlsw[t] # 0
       THEN /\ pc' = [pc EXCEPT ![t] = "r_lock"]
            /\ w_loc' = [w_loc EXCEPT ![t] = tlsw[t]]
            /\ UNCHANGED walive
       ELSE /\ NewWrapper # 0
            /\ walive' = walive \cup {NewWrapper}
            /\ w_loc' = [w_loc EXCEPT ![t] = NewWrapper]
            /\ pc' = [pc EXCEPT ![t] = "aw_lock"]
    /\ UNCHANGED <<slotVars, lockVars, wrappers, wmutex, tlsw, ptr, lastObs,
                   writerVars, historyVars,
                   auxVars>>

\* AddWrapper's locked scope (lock _wrappers_mutex, push_back, unlock), then
\* Read's pthread_setspecific returning 0
AddWrapper(t) ==
    /\ pc[t] = "aw_lock"
    /\ CanLock(wrappers_mutex)
    /\ wrappers' = Append(wrappers, w_loc[t])
    /\ tlsw' = [tlsw EXCEPT ![t] = w_loc[t]]
    /\ pc' = [pc EXCEPT ![t] = "r_lock"]
    /\ UNCHANGED <<slotVars, lockVars, walive, wmutex, readerVars,
                   writerVars, historyVars,
                   auxVars>>

\* Wrapper::BeginRead
BeginRead(t) ==
    /\ pc[t] = "r_lock"
    /\ CanLock(wmutex[w_loc[t]])
    /\ wmutex' = [wmutex EXCEPT ![w_loc[t]] = Held(t)]
    /\ pc' = [pc EXCEPT ![t] = "r_load"]
    /\ UNCHANGED <<slotVars, lockVars, wrappers, walive, tlsw, readerVars,
                   writerVars, historyVars,
                   auxVars>>

\* ptr->_data = UnsafeRead(); ptr->_w = w; return 0
ReadLoad(t) ==
    /\ pc[t] = "r_load"
    /\ ptr' = [ptr EXCEPT ![t] = [data |-> UnsafeRead, w |-> w_loc[t]]]
    /\ w_loc' = [w_loc EXCEPT ![t] = 0]
    /\ pc' = [pc EXCEPT ![t] = "reading"]
    /\ UNCHANGED <<slotVars, lockVars, registryVars, lastObs,
                   writerVars, historyVars,
                   auxVars>>

\* ~ScopedPtr of a guard filled by Read: _w->EndRead()
EndRead(t) ==
    /\ pc[t] = "reading"
    /\ wmutex' = [wmutex EXCEPT ![ptr[t].w] = 0]
    /\ ptr' = [ptr EXCEPT ![t] = NullPtr]
    /\ pc' = [pc EXCEPT ![t] = "idle"]
    /\ UNCHANGED <<slotVars, lockVars, wrappers, walive, tlsw, w_loc, lastObs,
                   writerVars, historyVars,
                   auxVars>>

\* The same destructor in the Observer, whose caller keeps the version it
\* read through the guard (ptr->_index in main) to compare with its next Read
EndReadObserved(t) ==
    /\ t = Observer
    /\ pc[t] = "reading"
    /\ wmutex' = [wmutex EXCEPT ![ptr[t].w] = 0]
    /\ lastObs' = data[ptr[t].data].index
    /\ ptr' = [ptr EXCEPT ![t] = NullPtr]
    /\ pc' = [pc EXCEPT ![t] = "idle"]
    /\ UNCHANGED <<slotVars, lockVars, wrappers, walive, tlsw, w_loc,
                   writerVars, historyVars,
                   auxVars>>

\* The places where Read is about to return -1: the key is missing, new
\* returned NULL, push_back threw, pthread_setspecific returned non-zero
ReadFailPcs == {"r_fail", "r_fail_alloc", "r_fail_push", "r_fail_bind"}

\* Read returned -1: the caller drops its default-constructed guard
ReadFailed(t) ==
    /\ pc[t] \in ReadFailPcs
    /\ w_loc' = [w_loc EXCEPT ![t] = 0]
    /\ pc' = [pc EXCEPT ![t] = "idle"]
    /\ UNCHANGED <<slotVars, lockVars, registryVars, ptr, lastObs,
                   writerVars, historyVars,
                   auxVars>>

\* ------------------------------------------------------- TLS = int
\* A first Read on DoublyBufferedData<T, int>: Wrapper(c) : _control(c)
\* leaves _user_tls uninitialised, so it holds whatever the memory held
ReadCallTls(t) ==
    /\ pc[t] = "idle"
    /\ shut.st = "alive"
    /\ ~KeyMissing(created_key)
    /\ tlsw[t] = 0
    /\ NewWrapper # 0
    /\ walive' = walive \cup {NewWrapper}
    /\ w_loc' = [w_loc EXCEPT ![t] = NewWrapper]
    /\ \E u \in TlsVals : user_tls' = [user_tls EXCEPT ![NewWrapper] = u]
    /\ pc' = [pc EXCEPT ![t] = "aw_lock"]
    /\ UNCHANGED <<slotVars, lockVars, wrappers, wmutex, tlsw, ptr, lastObs,
                   writerVars, historyVars, cycles, shut, scope>>

\* ptr.tls() += 1 through a live guard: ScopedPtr::tls returns
\* _w->user_tls()
TlsIncrement(t) ==
    /\ pc[t] = "reading"
    /\ cycles[t] < MaxTls
    /\ user_tls' = [user_tls EXCEPT ![ptr[t].w] = user_tls[ptr[t].w] + 1]
    /\ cycles' = [cycles EXCEPT ![t] = cycles[t] + 1]
    /\ UNCHANGED <<slotVars, lockVars, registryVars, readerVars, pc,
                   writerVars, historyVars, shut, scope>>

\* ----------------------------------------------------- failures in Read
\* A first Read whose new (std::nothrow) Wrapper(this) returns NULL:
\* AddWrapper returns NULL and Read returns -1
AllocFails(t) ==
    /\ pc[t] = "idle"
    /\ shut.st = "alive"
    /\ ~KeyMissing(created_key)
    /\ tlsw[t] = 0
    /\ pc' = [pc EXCEPT ![t] = "r_fail_alloc"]
    /\ UNCHANGED <<slotVars, lockVars, registryVars, readerVars,
                   writerVars, historyVars, auxVars>>

\* AddWrapper's push_back throws inside the locked scope: the lock is
\* released by unwinding, the handler returns NULL and the unique_ptr
\* starts deleting the Wrapper
PushBackThrows(t) ==
    /\ pc[t] = "aw_lock"
    /\ CanLock(wrappers_mutex)
    /\ pc' = [pc EXCEPT ![t] = "aw_undo"]
    /\ UNCHANGED <<slotVars, lockVars, registryVars, readerVars,
                   writerVars, historyVars, auxVars>>

\* ~Wrapper of that Wrapper: RemoveWrapper(this) under _wrappers_mutex,
\* then the memory is freed; Read gets NULL and returns -1
RemoveWrapperUndo(t) ==
    /\ pc[t] = "aw_undo"
    /\ CanLock(wrappers_mutex)
    /\ wrappers' = RemoveFrom(wrappers, w_loc[t])
    /\ walive' = walive \ {w_loc[t]}
    /\ w_loc' = [w_loc EXCEPT ![t] = 0]
    /\ pc' = [pc EXCEPT ![t] = "r_fail_push"]
    /\ UNCHANGED <<slotVars, lockVars, wmutex, tlsw, ptr, lastObs,
                   writerVars, historyVars, auxVars>>

\* AddWrapper succeeds (the Wrapper is in _wrappers) and then
\* pthread_setspecific returns non-zero: Read returns -1 with w non-NULL
SetspecificFails(t) ==
    /\ pc[t] = "aw_lock"
    /\ CanLock(wrappers_mutex)
    /\ wrappers' = Append(wrappers, w_loc[t])
    /\ pc' = [pc EXCEPT ![t] = "r_fail_bind"]
    /\ UNCHANGED <<slotVars, lockVars, walive, wmutex, tlsw, readerVars,
                   writerVars, historyVars, auxVars>>

\* ------------------------------------------------------------ thread exit
\* The thread exits holding no guard: pthread runs delete_object<Wrapper> on
\* a non-NULL key value, so ~Wrapper calls RemoveWrapper(this) (lock
\* _wrappers_mutex, the loop, unlock) and the wrapper is freed
ThreadExit(t) ==
    /\ pc[t] = "idle"
    /\ IF tlsw[t] = 0 \/ KeyDeleted(shut.st)
       THEN UNCHANGED <<wrappers, walive, tlsw, shut>>
       ELSE /\ CanLock(wrappers_mutex)
            /\ wrappers' = RemoveFrom(wrappers, tlsw[t])
            /\ walive' = walive \ {tlsw[t]}
            /\ tlsw' = [tlsw EXCEPT ![t] = 0]
            /\ shut' = [shut EXCEPT !.badfree =
                           IF tlsw[t] \in walive THEN @ ELSE @ + 1]
    /\ lastObs' = IF t = Observer THEN 0 ELSE lastObs
    /\ pc' = [pc EXCEPT ![t] = "exited"]
    /\ UNCHANGED <<slotVars, lockVars, wmutex, ptr, w_loc, writerVars,
                   historyVars,
                   user_tls, cycles, scope>>

\* ------------------------------------------------- ~DoublyBufferedData
\* The destructor starts while no thread is inside Read or Modify and no
\* guard is alive (the caller's duty): pthread_key_delete if the key was
\* created, then BAIDU_SCOPED_LOCK(_wrappers_mutex); size_t i = 0
DtorBegin ==
    /\ shut.st = "alive"
    /\ \A t \in AllThreads : pc[t] \in {"idle", "exited"}
    /\ CanLock(wrappers_mutex)
    /\ wrappers_mutex' = DtorHolder
    /\ shut' = [shut EXCEPT !.st = "loop", !.i = 1]
    /\ UNCHANGED <<slotVars, modify_mutex, registryVars, readerVars, pc,
                   writerVars, historyVars, user_tls, cycles, scope>>

\* One turn of the loop: _wrappers[i]->_control = NULL; delete _wrappers[i].
\* ~Wrapper calls RemoveWrapper(this) only if _control is still set
DtorDelete ==
    /\ shut.st = "loop"
    /\ shut.i <= Len(wrappers)
    /\ walive' = walive \ {wrappers[shut.i]}
    /\ shut' = [shut EXCEPT
                  !.i = @ + 1,
                  !.reenter = IF Detach(TRUE) THEN @ + 1 ELSE @,
                  !.badfree = IF wrappers[shut.i] \in walive THEN @ ELSE @ + 1]
    /\ UNCHANGED <<slotVars, lockVars, wrappers, wmutex, tlsw, readerVars, pc,
                   writerVars, historyVars, user_tls, cycles, scope>>

\* _wrappers.clear() and the end of the locked scope
DtorEnd ==
    /\ shut.st = "loop"
    /\ shut.i > Len(wrappers)
    /\ wrappers' = <<>>
    /\ wrappers_mutex' = 0
    /\ shut' = [shut EXCEPT !.st = "done", !.i = 0]
    /\ UNCHANGED <<slotVars, modify_mutex, walive, wmutex, tlsw, readerVars,
                   pc, writerVars, historyVars, user_tls, cycles, scope>>

\* ----------------------------------------------------------------- Modify
\* A thread calls Modify(fn) and reaches BAIDU_SCOPED_LOCK(_modify_mutex)
ModifyCall(t) ==
    /\ pc[t] = "idle"
    /\ shut.st = "alive"
    /\ nver + Cardinality({u \in AllThreads : pc[u] = "m_lock"}) < MaxModify
    /\ pc' = [pc EXCEPT ![t] = "m_lock"]
    /\ UNCHANGED <<slotVars, lockVars, registryVars, readerVars, writerVars,
                   historyVars,
                   auxVars>>

\* The closure passed to Modify(Fn&) by ModifyWithForeground: fn_arg holds
\* this in place of a version number
WithFG == 0 - 1

\* What fn stores into a field of _data[bg_index]: a setter stores its
\* argument; under WithFG0 the user's function stores other.field + 1
FnValue(t, f) ==
    IF fn_arg[t] = WithFG
    THEN data[OtherOf(bg_index[t])][f] + 1
    ELSE fn_arg[t]

\* The writer lock is taken; int bg_index = !_index.load(relaxed); then
\* fn(_data[bg_index]) is entered with closure arg; n is what the history
\* counter nver becomes
ModifyTake(t, arg, n) ==
    /\ pc[t] = "m_lock"
    /\ CanLock(modify_mutex)
    /\ modify_mutex' = Held(t)
    /\ bg_index' = [bg_index EXCEPT ![t] = BgIndexOf(index)]
    /\ nver' = n
    /\ fn_arg' = [fn_arg EXCEPT ![t] = arg]
    /\ hist' = [NoHist EXCEPT
                  !.idx = index, !.fg = data[index], !.calls = 1,
                  !.others = IF arg = WithFG
                             THEN <<OtherOf(BgIndexOf(index))>> ELSE <<>>,
                  !.eq = arg = WithFG /\ data[0] = data[1]]
    /\ pc' = [pc EXCEPT ![t] = "m_fn1a"]
    /\ UNCHANGED <<slotVars, wrappers_mutex, registryVars, readerVars, ret,
                   drain_i, rv, pubBy, lastDone,
                   auxVars>>

\* a Modify that the history counts
ModifyEnter(t, arg) == ModifyTake(t, arg, nver + 1)

\* Modify(fn, arg1, arg2) with a setter, as in main: fn stores the next
\* version number
ModifyLock(t) == ModifyEnter(t, nver + 1)

\* ModifyWithForeground(fn): WithFG0<Fn> c(fn, _data); return Modify(c)
ModifyWithForeground(t) == ModifyEnter(t, WithFG)

\* fn, first store: bg._index = index
FnWriteIndex(t) ==
    /\ pc[t] \in {"m_fn1a", "m_fn2a"}
    /\ data' = [data EXCEPT ![bg_index[t]].index = FnValue(t, "index")]
    /\ pc' = [pc EXCEPT ![t] = IF pc[t] = "m_fn1a" THEN "m_fn1b" ELSE "m_fn2b"]
    /\ UNCHANGED <<index, created_key, lockVars, registryVars, readerVars,
                   writerVars, historyVars,
                   auxVars>>

\* const size_t ret = fn(_data[bg_index]): a setter's last store and return,
\* or the whole call of a function that changes nothing and returns 0;
\* if (!ret) return 0
FnReturn1(t) ==
    /\ \/ /\ pc[t] = "m_fn1b"
          /\ data' = [data EXCEPT ![bg_index[t]].body = FnValue(t, "body")]
          /\ \E r \in Rets :
                /\ ret' = [ret EXCEPT ![t] = r]
                /\ pc' = [pc EXCEPT ![t] =
                              IF EarlyExit(r) THEN "m_exit" ELSE "m_pub"]
       \/ /\ pc[t] = "m_fn1a"
          /\ ret' = [ret EXCEPT ![t] = 0]
          /\ pc' = [pc EXCEPT ![t] =
                        IF EarlyExit(0) THEN "m_exit" ELSE "m_pub"]
          /\ UNCHANGED data
    /\ rv' = [rv EXCEPT ![t] = 0]
    /\ UNCHANGED <<index, created_key, lockVars, registryVars, readerVars,
                   fn_arg, bg_index, drain_i, historyVars,
                   auxVars>>

\* _index.store(bg_index, release); bg_index = !bg_index
ModifyPublish(t) ==
    /\ pc[t] = "m_pub"
    /\ index' = bg_index[t]
    /\ bg_index' = [bg_index EXCEPT ![t] = Flip(bg_index[t])]
    /\ pubBy' = IF fn_arg[t] = WithFG THEN pubBy ELSE fn_arg[t]
    /\ hist' = [hist EXCEPT !.stores = hist.stores + 1]
    /\ pc' = [pc EXCEPT ![t] = "m_wlock"]
    /\ UNCHANGED <<data, created_key, lockVars, registryVars, readerVars,
                   fn_arg, ret, drain_i, rv, nver, lastDone,
                   auxVars>>

\* BAIDU_SCOPED_LOCK(_wrappers_mutex) of the drain; size_t i = 0
DrainLock(t) ==
    /\ pc[t] = "m_wlock"
    /\ CanLock(wrappers_mutex)
    /\ wrappers_mutex' = Held(t)
    /\ drain_i' = [drain_i EXCEPT ![t] = 1]
    /\ hist' = [hist EXCEPT !.reglocks = hist.reglocks + 1]
    /\ pc' = [pc EXCEPT ![t] = "m_drain"]
    /\ UNCHANGED <<slotVars, modify_mutex, registryVars, readerVars, fn_arg,
                   bg_index, ret, rv, nver, pubBy, lastDone,
                   auxVars>>

\* The drain loop's test, then either WaitReadDone's lock of _wrappers[i] or
\* the end of the locked scope and the entry into fn(_data[bg_index])
DrainNext(t) ==
    /\ pc[t] = "m_drain"
    /\ IF DrainMore(drain_i[t], Len(wrappers))
       THEN /\ CanLock(wmutex[wrappers[drain_i[t]]])
            /\ wmutex' = [wmutex EXCEPT ![wrappers[drain_i[t]]] = Held(t)]
            /\ pc' = [pc EXCEPT ![t] = "m_wait"]
            /\ UNCHANGED <<wrappers_mutex, drain_i, hist>>
       ELSE /\ wrappers_mutex' = 0
            /\ drain_i' = [drain_i EXCEPT ![t] = 0]
            /\ hist' = [hist EXCEPT
                          !.calls = hist.calls + 1,
                          !.waits = Len(hist.drained),
                          !.missed = {w \in {wrappers[k] : k \in 1..Len(wrappers)} :
                                         Count(hist.drained, w) # 1},
                          !.drained = <<>>,
                          !.others = IF fn_arg[t] = WithFG
                                     THEN Append(hist.others,
                                                 OtherOf(bg_index[t]))
                                     ELSE hist.others]
            /\ pc' = [pc EXCEPT ![t] = "m_fn2a"]
            /\ UNCHANGED wmutex
    /\ UNCHANGED <<slotVars, modify_mutex, wrappers, walive, tlsw, readerVars,
                   fn_arg, bg_index, ret, rv, nver, pubBy, lastDone,
                   auxVars>>

\* WaitReadDone: the scoped lock on Wrapper::_mutex ends; ++i
WaitReadDone(t) ==
    /\ pc[t] = "m_wait"
    /\ wmutex' = [wmutex EXCEPT ![wrappers[drain_i[t]]] = 0]
    /\ hist' = [hist EXCEPT !.drained = Append(hist.drained,
                                               wrappers[drain_i[t]])]
    /\ drain_i' = [drain_i EXCEPT ![t] = drain_i[t] + 1]
    /\ pc' = [pc EXCEPT ![t] = "m_drain"]
    /\ UNCHANGED <<slotVars, lockVars, wrappers, walive, tlsw, readerVars,
                   fn_arg, bg_index, ret, rv, nver, pubBy, lastDone,
                   auxVars>>

\* const size_t ret2 = fn(_data[bg_index]): fn's last store and its return;
\* return ret2
FnReturn2(t) ==
    /\ pc[t] = "m_fn2b"
    /\ data' = [data EXCEPT ![bg_index[t]].body = FnValue(t, "body")]
    /\ \E r \in Rets :
          /\ rv' = [rv EXCEPT ![t] = ModifyResult(ret[t], r)]
          /\ hist' = [hist EXCEPT !.ret2 = r,
                                  !.diag = Diagnostic(ret[t], r)]
    /\ pc' = [pc EXCEPT ![t] = "m_exit"]
    /\ UNCHANGED <<index, created_key, lockVars, registryVars, readerVars,
                   fn_arg, bg_index, ret, drain_i, nver, pubBy, lastDone,
                   auxVars>>

\* ~lock_guard of _modify_mutex as Modify returns
ModifyUnlock(t) ==
    /\ pc[t] = "m_exit"
    /\ modify_mutex' = Released(modify_mutex)
    /\ lastDone' = IF hist.stores > 0 /\ fn_arg[t] # WithFG
                   THEN fn_arg[t] ELSE lastDone
    /\ fn_arg' = [fn_arg EXCEPT ![t] = 0]
    /\ bg_index' = [bg_index EXCEPT ![t] = 0]
    /\ ret' = [ret EXCEPT ![t] = 0]
    /\ rv' = [rv EXCEPT ![t] = 0]
    /\ hist' = NoHist
    /\ pc' = [pc EXCEPT ![t] = "idle"]
    /\ UNCHANGED <<slotVars, wrappers_mutex, registryVars, readerVars,
                   drain_i, nver, pubBy,
                   auxVars>>

\* ------------------------------------------ Modify called without end
\* A thread calls Modify again, however many calls there have been
ModifyCallAgain(t) ==
    /\ pc[t] = "idle"
    /\ shut.st = "alive"
    /\ pc' = [pc EXCEPT ![t] = "m_lock"]
    /\ UNCHANGED <<slotVars, lockVars, registryVars, readerVars, writerVars,
                   historyVars, auxVars>>

\* The writer lock is taken by a call whose setter stores version 1, as
\* every call of such a run does; the history counts one Modify
ModifyLockAgain(t) == ModifyTake(t, 1, 1)

\* ------------------------------------------- fn that calls Read itself
\* fn, running inside Modify on thread t, calls Read on the same container
\* before its stores: the key check, pthread_getspecific and, for a thread
\* that has never read, the allocation in AddWrapper
FnRead(t) ==
    /\ pc[t] \in {"m_fn1a", "m_fn2a"}
    /\ ptr[t] = NullPtr
    /\ hist.fread < hist.calls
    /\ ~KeyMissing(created_key)
    /\ IF tlsw[t] # 0
       THEN /\ pc' = [pc EXCEPT ![t] = "fr_lock"]
            /\ w_loc' = [w_loc EXCEPT ![t] = tlsw[t]]
            /\ UNCHANGED walive
       ELSE /\ NewWrapper # 0
            /\ walive' = walive \cup {NewWrapper}
            /\ w_loc' = [w_loc EXCEPT ![t] = NewWrapper]
            /\ pc' = [pc EXCEPT ![t] = "fr_aw"]
    /\ UNCHANGED <<slotVars, lockVars, wrappers, wmutex, tlsw, ptr, lastObs,
                   writerVars, historyVars, auxVars>>

\* AddWrapper's locked scope and pthread_setspecific, inside fn's Read
FnAddWrapper(t) ==
    /\ pc[t] = "fr_aw"
    /\ CanLock(wrappers_mutex)
    /\ wrappers' = Append(wrappers, w_loc[t])
    /\ tlsw' = [tlsw EXCEPT ![t] = w_loc[t]]
    /\ pc' = [pc EXCEPT ![t] = "fr_lock"]
    /\ UNCHANGED <<slotVars, lockVars, walive, wmutex, readerVars,
                   writerVars, historyVars, auxVars>>

\* w->BeginRead(); ptr->_data = UnsafeRead(); ptr->_w = w; return 0: fn has
\* its guard and goes on
FnBeginRead(t) ==
    /\ pc[t] = "fr_lock"
    /\ CanLock(wmutex[w_loc[t]])
    /\ wmutex' = [wmutex EXCEPT ![w_loc[t]] = Held(t)]
    /\ ptr' = [ptr EXCEPT ![t] = [data |-> UnsafeRead, w |-> w_loc[t]]]
    /\ w_loc' = [w_loc EXCEPT ![t] = 0]
    /\ hist' = [hist EXCEPT !.fread = hist.calls]
    /\ pc' = [pc EXCEPT ![t] = IF hist.calls = 1 THEN "m_fn1a" ELSE "m_fn2a"]
    /\ UNCHANGED <<slotVars, lockVars, wrappers, walive, tlsw, lastObs,
                   writerVars, nver, pubBy, lastDone, auxVars>>

\* ~ScopedPtr of a guard that is a local of fn: it ends before fn returns.
\* A guard that fn keeps in an object of its caller is still alive when
\* FnReturn1 or FnReturn2 is taken
FnEndRead(t) ==
    /\ pc[t] \in {"m_fn1a", "m_fn1b", "m_fn2a", "m_fn2b"}
    /\ ptr[t] # NullPtr
    /\ wmutex' = [wmutex EXCEPT ![ptr[t].w] = 0]
    /\ ptr' = [ptr EXCEPT ![t] = NullPtr]
    /\ UNCHANGED <<slotVars, lockVars, wrappers, walive, tlsw, w_loc, lastObs,
                   pc, writerVars, historyVars, auxVars>>

\* ~ScopedPtr of a guard that outlived fn, after Modify has returned
KeptGuardEnds(t) ==
    /\ pc[t] = "idle"
    /\ ptr[t] # NullPtr
    /\ wmutex' = [wmutex EXCEPT ![ptr[t].w] = 0]
    /\ ptr' = [ptr EXCEPT ![t] = NullPtr]
    /\ UNCHANGED <<slotVars, lockVars, wrappers, walive, tlsw, w_loc, lastObs,
                   pc, writerVars, historyVars, auxVars>>

\* --------------------------------------------------- defer, defer_fifo
\* defer(f): a DeferHelper local is constructed holding the closure of f
Defer(f) ==
    /\ scope.kind = "lifo" /\ scope.phase = "body"
    /\ Len(scope.reg) < MaxDefer
    /\ \A k \in 1..Len(scope.reg) : scope.reg[k] # f
    /\ scope' = [scope EXCEPT !.helpers = Append(@, f), !.reg = Append(@, f)]
    /\ UNCHANGED containerVars

\* defer_fifo(f): DEFER_FIFO.add_func(closure of f)
DeferFifo(f) ==
    /\ scope.kind = "fifo" /\ scope.phase = "body"
    /\ Len(scope.reg) < MaxDefer
    /\ \A k \in 1..Len(scope.reg) : scope.reg[k] # f
    /\ scope' = [scope EXCEPT !.helpers = PushBack(@, f), !.reg = Append(@, f)]
    /\ UNCHANGED containerVars

\* any other statement of the body (the fprintf of defer_test)
Statement ==
    /\ scope.kind # "none" /\ scope.phase = "body"
    /\ Count(scope.out, 0) < MaxBody
    /\ scope' = [scope EXCEPT !.out = Append(@, 0)]
    /\ UNCHANGED containerVars

\* return: the locals of the scope start being destroyed
Return ==
    /\ scope.kind # "none" /\ scope.phase = "body"
    /\ scope' = [scope EXCEPT !.phase = "exit", !.i = 1]
    /\ UNCHANGED containerVars

\* ~DeferHelper of the next local to be destroyed: if (m_func) m_func()
DeferHelperDtor ==
    /\ scope.kind = "lifo" /\ scope.phase = "exit"
    /\ scope.helpers # <<>>
    /\ LET k == DestroyedFirst(Len(scope.helpers))
       IN scope' = [scope EXCEPT !.out = Append(@, scope.helpers[k]),
                                 !.helpers = Without(@, k)]
    /\ UNCHANGED containerVars

\* the last local is gone: the function has returned
ScopeLeft ==
    /\ scope.kind = "lifo" /\ scope.phase = "exit"
    /\ scope.helpers = <<>>
    /\ scope' = [scope EXCEPT !.phase = "done", !.i = 0]
    /\ UNCHANGED containerVars

\* ~DeferHelperFifo, one turn of for (auto &func : m_funcs) func()
FifoRun ==
    /\ scope.kind = "fifo" /\ scope.phase = "exit"
    /\ scope.i <= Len(scope.helpers)
    /\ scope' = [scope EXCEPT !.out = Append(@, scope.helpers[scope.i]),
                              !.i = @ + 1]
    /\ UNCHANGED containerVars

\* ~DeferHelperFifo after the loop: m_funcs.clear()
FifoClear ==
    /\ scope.kind = "fifo" /\ scope.phase = "exit"
    /\ scope.i > Len(scope.helpers)
    /\ scope' = [scope EXCEPT !.helpers = <<>>, !.phase = "done", !.i = 0]
    /\ UNCHANGED containerVars

\* ------------------------------------------------------- specifications
ReaderStep(t) ==
    \/ ReadCall(t)
    \/ AddWrapper(t)
    \/ BeginRead(t)
    \/ ReadLoad(t)
    \/ ReadFailed(t)
    \/ ThreadExit(t)

WriterStep(t) ==
    \/ ModifyCall(t)
    \/ ModifyLock(t)
    \/ FnWriteIndex(t)
    \/ FnReturn1(t)
    \/ ModifyPublish(t)
    \/ DrainLock(t)
    \/ DrainNext(t)
    \/ WaitReadDone(t)
    \/ FnReturn2(t)
    \/ ModifyUnlock(t)

Next == \E t \in Threads : ReaderStep(t) \/ EndRead(t) \/ WriterStep(t)

\* NThreads threads that each read, write and exit in any order
Spec == Init /\ [][Next]_vars

NextWriter == Next \/ WriterStep(Writer)

\* the same threads beside one more thread that only calls Modify
SpecWriter == Init /\ [][NextWriter]_vars

NextObs ==
    \E t \in Threads :
        \/ ReaderStep(t)
        \/ t # Observer /\ EndRead(t)
        \/ EndReadObserved(t)
        \/ WriterStep(t)

\* the same threads, one of which remembers what each of its Reads saw
SpecObs == Init /\ [][NextObs]_vars

NextFaults ==
    \/ ReaderStep(Observer)
    \/ EndRead(Observer)
    \/ AllocFails(Observer)
    \/ PushBackThrows(Observer)
    \/ RemoveWrapperUndo(Observer)
    \/ SetspecificFails(Observer)
    \/ \E t \in Threads \ {Observer} : ThreadExit(t)
    \/ WriterStep(Writer)

\* one thread that reads and exits, with every failure Read provides for,
\* beside threads that exit without having read and one that calls Modify
SpecFaults == Init /\ [][NextFaults]_vars

NextTls == Next \/ \E t \in Threads : ReadCallTls(t) \/ TlsIncrement(t)

\* the same threads on a container with TLS = int
SpecTls == Init /\ [][NextTls]_vars

NextShutdown == Next \/ DtorBegin \/ DtorDelete \/ DtorEnd

\* the same threads and the destruction of the container
SpecShutdown == Init /\ [][NextShutdown]_vars

\* defer_test or defer_test_fifo is entered; no container is in use
InitDefer ==
    /\ InitContainer
    /\ created_key
    /\ scope \in {NewScope("lifo"), NewScope("fifo")}

NextDefer ==
    \/ \E f \in Fns : Defer(f) \/ DeferFifo(f)
    \/ Statement
    \/ Return
    \/ DeferHelperDtor
    \/ ScopeLeft
    \/ FifoRun
    \/ FifoClear

\* one scope that defers up to MaxDefer functions in any order among up to
\* MaxBody other statements, and returns at any point
SpecDefer == InitDefer /\ [][NextDefer]_vars

\* the steps of Modify after the writer lock is taken
WriterRun(t) ==
    \/ FnWriteIndex(t)
    \/ FnReturn1(t)
    \/ ModifyPublish(t)
    \/ DrainLock(t)
    \/ DrainNext(t)
    \/ WaitReadDone(t)
    \/ FnReturn2(t)
    \/ ModifyUnlock(t)

\* the steps that take a thread on inside Read or Modify, and the end of its
\* guard
Inside(t) ==
    \/ AddWrapper(t)
    \/ BeginRead(t)
    \/ ReadLoad(t)
    \/ ReadFailed(t)
    \/ EndRead(t)
    \/ ModifyLockAgain(t)
    \/ WriterRun(t)

\* the steps that wait for a mutex: _wrappers_mutex in AddWrapper and in the
\* drain, Wrapper::_mutex in BeginRead and WaitReadDone, _modify_mutex
Acquire(t) ==
    \/ AddWrapper(t)
    \/ BeginRead(t)
    \/ ModifyLockAgain(t)
    \/ DrainLock(t)
    \/ DrainNext(t)

NextLive ==
    \/ \E t \in Threads : ReadCall(t) \/ ThreadExit(t)
    \/ \E t \in AllThreads : ModifyCallAgain(t) \/ Inside(t)

\* Threads that read, call Modify without end and exit, beside a thread that
\* only calls Modify.  A thread inside a call, or holding a guard, takes its
\* next step if that step stays possible; nothing makes a thread call
FairLive == \A t \in AllThreads : WF_vars(Inside(t))
SpecLive == Init /\ [][NextLive]_vars /\ FairLive

NextReentry ==
    \/ WriterStep(Observer)
    \/ FnRead(Observer)
    \/ FnAddWrapper(Observer)
    \/ FnBeginRead(Observer)
    \/ FnEndRead(Observer)
    \/ KeptGuardEnds(Observer)
    \/ \E t \in Threads \ {Observer} : ReaderStep(t) \/ EndRead(t)

\* one thread calls Modify with a fn that may call Read on the container,
\* in either invocation, and may let the guard go inside fn or keep it; the
\* other threads read and exit
SpecReentry == Init /\ [][NextReentry]_vars

NextFG ==
    \/ ReadCall(Observer)
    \/ AddWrapper(Observer)
    \/ BeginRead(Observer)
    \/ ReadLoad(Observer)
    \/ EndRead(Observer)
    \/ ReadFailed(Observer)
    \/ \E t \in Threads : WriterStep(t) \/ ModifyWithForeground(t)

\* every thread calls Modify or ModifyWithForeground and one of them also
\* reads; no thread exits
SpecFG == Init /\ [][NextFG]_vars

\* ------------------------------------------------------------- properties
FnPcs == {"m_fn1a", "m_fn1b", "m_fn2a", "m_fn2b"}
WriterLocked == FnPcs \cup {"m_pub", "m_wlock", "m_drain", "m_wait", "m_exit"}

\* the slot a thread's guard points at
Obs(t) == data[ptr[t].data]

\* C1 (reader isolation): while a guard filled by Read is alive, no writer is
\* inside an invocation of fn on the slot the guard points at.  Every store
\* to a slot is a step of such an invocation, so the slot is neither written
\* nor half written during the guard's lifetime.
C1_ReaderIsolation ==
    \A r \in AllThreads : \A w \in AllThreads :
        (pc[r] = "reading" /\ pc[w] \in FnPcs) => bg_index[w] # ptr[r].data

\* a guard is alive while a writer is between the two stores of its second
\* invocation of fn
C1_Witness ==
    \E r \in AllThreads : \E w \in AllThreads :
        pc[r] = "reading" /\ pc[w] = "m_fn2b"

\* C2 (visibility after Modify): every live guard shows a complete value
\* whose version is at least that of the last published Modify that has
\* returned and at most that of the last Modify that has published.  lastDone
\* never decreases, so a guard obtained by a Read that began after a
\* published Modify returned shows that Modify's publication or a later one.
C2_VisibilityAfterModify ==
    \A t \in AllThreads :
        pc[t] = "reading" =>
            /\ lastDone <= Obs(t).index
            /\ Obs(t).index <= pubBy
            /\ Obs(t).body = Obs(t).index

\* a guard on the second publication after the second Modify has returned
C2_Witness ==
    \E t \in AllThreads :
        pc[t] = "reading" /\ lastDone = 2 /\ Obs(t).index = 2

\* C3 (writer exclusion): at most one thread is between acquiring and
\* releasing _modify_mutex, and it is the thread recorded as the owner; so
\* at most one invocation of fn is in progress.
C3_WriterExclusion ==
    /\ Cardinality({t \in AllThreads : pc[t] \in WriterLocked}) <= 1
    /\ \A t \in AllThreads : pc[t] \in WriterLocked => modify_mutex = Held(t)

\* one thread is inside fn while another waits for the writer lock
C3_Witness ==
    \E a \in AllThreads : \E b \in AllThreads :
        a # b /\ pc[a] \in FnPcs /\ pc[b] = "m_lock"

\* C4 (double application in order): the first invocation of fn is on the
\* slot that was background when the writer lock was taken, before any store
\* to _index; the second is on the slot that was foreground then, after
\* exactly one store to _index that flipped it, one acquisition of
\* _wrappers_mutex and a drain that locked and unlocked every registered
\* wrapper exactly once; a published Modify returns after exactly two
\* invocations.
C4_DoubleApplicationInOrder ==
    \A t \in AllThreads :
        /\ pc[t] \in {"m_fn1a", "m_fn1b"} =>
              /\ hist.calls = 1 /\ hist.stores = 0
              /\ bg_index[t] = 1 - hist.idx /\ index = hist.idx
        /\ pc[t] \in {"m_fn2a", "m_fn2b"} =>
              /\ hist.calls = 2 /\ hist.stores = 1 /\ hist.reglocks = 1
              /\ bg_index[t] = hist.idx /\ index = 1 - hist.idx
              /\ hist.missed = {}
        /\ (pc[t] = "m_exit" /\ ret[t] # 0) =>
              /\ hist.calls = 2 /\ hist.stores = 1 /\ hist.missed = {}

\* a published Modify is about to return after a drain that waited for a
\* registered wrapper
C4_Witness ==
    \E t \in AllThreads :
        pc[t] = "m_exit" /\ ret[t] # 0 /\ hist.calls = 2 /\ hist.waits >= 1

\* C5 (slot convergence for setters): when no writer is active and the last
\* Modify that ran was a published setter of v, both slots hold v.
C5_SlotConvergence ==
    (modify_mutex = 0 /\ nver >= 1 /\ lastDone = nver) =>
        /\ data[0] = [index |-> nver, body |-> nver]
        /\ data[1] = [index |-> nver, body |-> nver]

\* two published setters have run one after the other
C5_Witness == modify_mutex = 0 /\ nver = 2 /\ lastDone = 2 /\ index = 0

\* C6 (early exit): a Modify whose first invocation returned 0 returns 0
\* after one invocation of fn, no store to _index, no acquisition of
\* _wrappers_mutex or of a wrapper's mutex; _index and the foreground slot
\* are as they were when it took the writer lock.
C6_EarlyExit ==
    \A t \in AllThreads :
        (pc[t] = "m_exit" /\ ret[t] = 0) =>
            /\ rv[t] = 0
            /\ hist.calls = 1 /\ hist.stores = 0
            /\ hist.reglocks = 0 /\ hist.waits = 0 /\ hist.drained = <<>>
            /\ wrappers_mutex # Held(t)
            /\ \A w \in WrapperIds : wmutex[w] # Held(t)
            /\ index = hist.idx
            /\ data[index] = hist.fg

\* an early exit of a fn that wrote the background slot, after an earlier
\* Modify had published
C6_Witness ==
    \E t \in AllThreads :
        /\ pc[t] = "m_exit" /\ ret[t] = 0
        /\ index = 1
        /\ data[bg_index[t]].index = fn_arg[t]

\* C7 (return value): Modify returns 0 when fn's first invocation returned 0
\* and otherwise the value fn's second invocation returned.
C7_ReturnValue ==
    \A t \in AllThreads :
        pc[t] = "m_exit" =>
            rv[t] = IF ret[t] = 0 THEN 0 ELSE hist.ret2

\* a Modify returning a second result that differs from the first
C7_Witness ==
    \E t \in AllThreads :
        pc[t] = "m_exit" /\ ret[t] # 0 /\ hist.ret2 # ret[t]

\* t is inside Read and cannot go on until thread r gives up its guard: its
\* own wrapper mutex is held by a reader, or it waits in AddWrapper for
\* _wrappers_mutex, held by a draining writer that waits for r's guard
WaitsForGuardOf(t, r) ==
    \/ /\ pc[t] = "r_lock"
       /\ wmutex[w_loc[t]] = Held(r)
       /\ pc[r] \in {"r_load", "reading"}
    \/ /\ pc[t] = "aw_lock"
       /\ \E u \in AllThreads :
             /\ wrappers_mutex = Held(u)
             /\ pc[u] = "m_drain"
             /\ drain_i[u] <= Len(wrappers)
             /\ wmutex[wrappers[drain_i[u]]] = Held(r)
             /\ pc[r] \in {"r_load", "reading"}

\* C8 (Read never blocks on other readers): no thread inside Read, its first
\* Read included, has to wait for another thread to release a read guard.
C8_ReadNeverWaitsForReaders ==
    \A t \in AllThreads : \A r \in AllThreads :
        r # t => ~WaitsForGuardOf(t, r)

\* C9 (monotonic observation): every value seen through a guard is complete
\* (both fields from one write) and is the initial value or the version of a
\* Modify that has run; the version the Observer sees is never lower than
\* the one it saw in its previous Read.
C9_MonotonicObservation ==
    /\ \A t \in AllThreads :
          pc[t] = "reading" =>
              /\ Obs(t).body = Obs(t).index
              /\ Obs(t).index \in 0..nver
    /\ pc[Observer] = "reading" => lastObs <= Obs(Observer).index

\* the Observer saw version 1 in its previous Read and sees version 2 now
C9_Witness ==
    pc[Observer] = "reading" /\ lastObs = 1 /\ Obs(Observer).index = 2

\* C10 (initial state): before any Modify has run the index is 0 and both
\* slots hold T(); the registry holds nothing while no Wrapper exists; and
\* until a Modify publishes, the index is 0, slot 0 holds T() and every
\* guard points at slot 0.
C10_InitialState ==
    /\ nver = 0 => (index = 0 /\ data[0] = DefaultT /\ data[1] = DefaultT)
    /\ walive = {} => wrappers = <<>>
    /\ pubBy = 0 =>
          /\ index = 0
          /\ data[0] = DefaultT
          /\ \A t \in AllThreads :
                pc[t] = "reading" => (ptr[t].data = 0 /\ Obs(t) = DefaultT)

\* a Read completed after a Modify that wrote the background slot and
\* exited early, before any publication
C10_Witness ==
    \E t \in AllThreads :
        pc[t] = "reading" /\ pubBy = 0 /\ nver >= 1 /\ data[1] # DefaultT

\* the places of a thread inside Read after the key check
ReadPcs == {"aw_lock", "r_lock", "r_load", "reading"}

\* C15 (key creation failed): on a container whose pthread_key_create
\* failed no Read gets past the key check: nothing is registered or
\* allocated, no Wrapper mutex is held, _wrappers_mutex is held by nobody but
\* a draining writer, and every guard stays in its default state, so its
\* destructor releases nothing.
C15_KeyFailure ==
    ~created_key =>
        /\ wrappers = <<>> /\ walive = {}
        /\ \A w \in WrapperIds : wmutex[w] = 0
        /\ \A t \in AllThreads :
              /\ pc[t] \notin ReadPcs
              /\ ptr[t] = NullPtr /\ tlsw[t] = 0 /\ w_loc[t] = 0
              /\ wrappers_mutex = Held(t) => pc[t] \in {"m_drain", "m_wait"}

\* a Read is returning -1 on a keyless container on which a Modify has
\* published and returned
C15_Witness ==
    /\ ~created_key
    /\ \E t \in AllThreads : pc[t] = "r_fail"
    /\ lastDone = 1 /\ data[0].index = 1 /\ data[1].index = 1

\* C16 (divergence diagnostic): a Modify that has made its second invocation
\* of fn has written the diagnostic exactly when the two invocations
\* returned different values.
C16_DiagnosticIffDiffer ==
    \A t \in AllThreads :
        (pc[t] = "m_exit" /\ hist.calls = 2) =>
            (hist.diag <=> ret[t] # hist.ret2)

\* C17 (ModifyWithForeground passes the opposite slot): in the first
\* invocation the second argument is the slot that is foreground, which is
\* not the slot being written; in the second invocation it is the slot that
\* the first invocation wrote and that the store to _index has made
\* foreground, again not the slot being written.
C17_OppositeSlot ==
    \A t \in AllThreads :
        (pc[t] \in WriterLocked /\ fn_arg[t] = WithFG) =>
            /\ pc[t] \in {"m_fn1a", "m_fn1b"} =>
                  /\ hist.others = <<index>>
                  /\ hist.others[1] = hist.idx
                  /\ hist.others[1] # bg_index[t]
            /\ pc[t] \in {"m_fn2a", "m_fn2b"} =>
                  /\ Len(hist.others) = 2
                  /\ hist.others[2] = index
                  /\ hist.others[2] = 1 - hist.idx
                  /\ hist.others[2] # bg_index[t]
            /\ (pc[t] = "m_exit" /\ ret[t] # 0) => Len(hist.others) = 2

\* a ModifyWithForeground in its second invocation on a container whose
\* foreground index was 1 when it began
C17_Witness ==
    \E t \in AllThreads :
        pc[t] = "m_fn2b" /\ fn_arg[t] = WithFG /\ hist.idx = 1

\* C18 (no convergence by itself): a published ModifyWithForeground of
\* "written = other + 1" that found both slots equal to v returns with the
\* foreground slot equal to v + 1 and the background slot equal to v + 2.
C18_NoConvergence ==
    \A t \in AllThreads :
        (pc[t] = "m_exit" /\ fn_arg[t] = WithFG /\ ret[t] # 0 /\ hist.eq) =>
            /\ data[index] = [index |-> hist.fg.index + 1,
                              body |-> hist.fg.body + 1]
            /\ data[1 - index] = [index |-> hist.fg.index + 2,
                                  body |-> hist.fg.body + 2]

\* such a call returns on a container that a setter had left at v = 1
C18_Witness ==
    \E t \in AllThreads :
        /\ pc[t] = "m_exit" /\ fn_arg[t] = WithFG /\ ret[t] # 0 /\ hist.eq
        /\ hist.fg = [index |-> 1, body |-> 1]
        /\ data[index].index = 2 /\ data[1 - index].index = 3

\* the Wrappers in _wrappers
Registered == {wrappers[k] : k \in 1..Len(wrappers)}

\* C11 (one record per thread): _wrappers holds no Wrapper twice, the
\* Wrapper bound to a thread is in it, and every Wrapper in it is bound to a
\* thread that has not exited or belongs to a Read that has not yet returned.
C11_OneRecordPerLiveThread ==
    /\ \A j \in 1..Len(wrappers) : \A k \in 1..Len(wrappers) :
          wrappers[j] = wrappers[k] => j = k
    /\ \A t \in AllThreads : tlsw[t] # 0 => tlsw[t] \in Registered
    /\ \A w \in Registered :
          \E t \in AllThreads :
              /\ pc[t] # "exited"
              /\ tlsw[t] = w \/ (pc[t] \in ReadFailPcs /\ w_loc[t] = w)

\* C12 (thread-exit cleanup): an exited thread is bound to no Wrapper, the
\* Wrappers of the threads that have not exited stay registered and
\* allocated, and once every reading thread has exited _wrappers is empty
\* and no Wrapper is left allocated.
C12_ExitCleanup ==
    /\ \A t \in Threads :
          /\ pc[t] = "exited" => tlsw[t] = 0
          /\ (pc[t] # "exited" /\ tlsw[t] # 0) =>
                 (tlsw[t] \in Registered /\ tlsw[t] \in walive)
    /\ (\A t \in Threads : pc[t] = "exited") =>
           (wrappers = <<>> /\ walive = {})

\* C13 (causes of a failed Read): Read returns -1 at the key check only on a
\* container without a key; otherwise only in a first Read, when new
\* returned NULL, push_back threw or pthread_setspecific returned non-zero.
\* A successful Read leaves a guard on the thread's own registered Wrapper
\* with its mutex held, pointing at the slot _index names or, if a writer
\* has stored _index since, at the slot that writer has yet to drain.
C13_ReadFailureCauses ==
    \A t \in AllThreads :
        /\ pc[t] = "r_fail" => ~created_key
        /\ pc[t] \in ReadFailPcs \ {"r_fail"} => (created_key /\ tlsw[t] = 0)
        /\ pc[t] = "r_fail_bind" => w_loc[t] \in walive
        /\ pc[t] = "reading" =>
              /\ ptr[t].w # 0 /\ ptr[t].w = tlsw[t]
              /\ ptr[t].w \in Registered
              /\ wmutex[ptr[t].w] = Held(t)
              /\ ptr[t].data # index =>
                    \E u \in AllThreads :
                        /\ pc[u] \in {"m_wlock", "m_drain", "m_wait"}
                        /\ Count(hist.drained, ptr[t].w) = 0

\* a Read is returning -1 because pthread_setspecific failed, on a container
\* with a key and after the Wrapper was allocated and inserted
C13_Witness ==
    \E t \in AllThreads :
        /\ pc[t] = "r_fail_bind" /\ created_key
        /\ w_loc[t] \in Registered /\ w_loc[t] \in walive

\* C13 as stated: a Read that returns -1 found no key, or its allocation or
\* its insertion failed.
C13_OnlyKeyOrAllocation ==
    \A t \in AllThreads :
        pc[t] \in ReadFailPcs =>
            (~created_key \/ pc[t] \in {"r_fail_alloc", "r_fail_push"})

\* C14 (failure safety of registration): a Read that is returning -1 holds
\* no lock and has left no Wrapper of its own in _wrappers or allocated.
C14_FailedReadLeavesNothing ==
    \A t \in AllThreads :
        pc[t] \in ReadFailPcs =>
            /\ wrappers_mutex # Held(t)
            /\ \A w \in WrapperIds : wmutex[w] # Held(t)
            /\ w_loc[t] # 0 =>
                  (w_loc[t] \notin Registered /\ w_loc[t] \notin walive)

\* C19 (per-thread user data): the U of a registered thread's Wrapper
\* equals the number of tls() += 1 the thread has performed.
C19_TlsEqualsCycles ==
    \A t \in Threads :
        tlsw[t] # 0 => user_tls[tlsw[t]] = cycles[t]

C24_ForegroundNeverWritten ==
    \A t \in AllThreads :
        pc[t] \in FnPcs =>
            /\ bg_index[t] # index
            /\ bg_index[t] = 1 - index
            /\ hist.stores = IF pc[t] \in {"m_fn1a", "m_fn1b"} THEN 0 ELSE 1

\* a second Modify is in its second invocation, writing slot 1 while _index
\* is back at 0
C24_Witness ==
    \E t \in AllThreads :
        pc[t] = "m_fn2a" /\ bg_index[t] = 1 /\ index = 0 /\ nver = 2

\* C25 (what a guard points at): a live guard points at the slot _index
\* names, or, after a writer has stored _index and until that writer's drain
\* has locked the guard's Wrapper, at the former foreground slot, which is the
\* slot that writer will write only after the drain.
C25_GuardSlot ==
    \A t \in AllThreads :
        pc[t] = "reading" =>
            \/ ptr[t].data = index
            \/ \E u \in AllThreads :
                  /\ pc[u] \in {"m_wlock", "m_drain", "m_wait"}
                  /\ hist.stores = 1
                  /\ ptr[t].data = bg_index[u]
                  /\ ptr[t].data = 1 - index
                  /\ Count(hist.drained, ptr[t].w) = 0

\* a guard taken before a publication is still alive after the store to
\* _index: it points at the slot that is no longer foreground
C25_Witness ==
    \E t \in AllThreads : \E u \in AllThreads :
        pc[t] = "reading" /\ ptr[t].data # index /\ pc[u] = "m_drain"

\* C25 as stated: every live guard points at the slot _index names.
C25_GuardOnForeground ==
    \A t \in AllThreads : pc[t] = "reading" => ptr[t].data = index

\* C26 (index discipline): _index is 0 or 1; a step changes it only if it is
\* the store of a thread that holds _modify_mutex, whose fn returned
\* non-zero and which has not stored before in this call, and the store
\* flips it; a Modify about to return has stored once if fn's first
\* invocation returned non-zero and not at all otherwise.
C26_IndexDiscipline ==
    /\ [](/\ index \in {0, 1}
          /\ \A t \in AllThreads :
                pc[t] = "m_exit" =>
                    hist.stores = IF ret[t] = 0 THEN 0 ELSE 1)
    /\ [][index' # index =>
             \E t \in AllThreads :
                /\ pc[t] = "m_pub" /\ pc'[t] = "m_wlock"
                /\ modify_mutex = Held(t) /\ modify_mutex' = Held(t)
                /\ ret[t] # 0
                /\ hist.stores = 0
                /\ index' = 1 - index]_vars

\* the second publication has flipped _index back to 0 and its writer has
\* not begun the drain
C26_Witness ==
    \E t \in AllThreads :
        pc[t] = "m_wlock" /\ index = 0 /\ hist.stores = 1 /\ pubBy = 2

\* C29 (a Modify that returns 0): either fn's first invocation returned 0,
\* and then _index and the foreground slot are as they were when the call
\* took the writer lock; or fn returned non-zero first and 0 second, and then
\* the call has flipped _index and readers see what fn wrote.
C29_ZeroReturn ==
    \A t \in AllThreads :
        (pc[t] = "m_exit" /\ rv[t] = 0) =>
            \/ /\ ret[t] = 0
               /\ index = hist.idx /\ data[index] = hist.fg
               /\ hist.stores = 0
            \/ /\ ret[t] # 0 /\ hist.ret2 = 0
               /\ index = 1 - hist.idx
               /\ hist.stores = 1
               /\ fn_arg[t] # WithFG => data[index].index = fn_arg[t]

\* a Modify is returning 0 after it published a new version
C29_Witness ==
    \E t \in AllThreads :
        /\ pc[t] = "m_exit" /\ rv[t] = 0 /\ ret[t] # 0
        /\ index # hist.idx /\ data[index] # hist.fg

\* C29 as stated: a Modify that returns 0 has left _index and the foreground
\* slot as they were when it began.
C29_ZeroMeansUnchanged ==
    \A t \in AllThreads :
        (pc[t] = "m_exit" /\ rv[t] = 0) =>
            (index = hist.idx /\ data[index] = hist.fg)

\* C30 (registry guarding): a thread inside the drain loop holds
\* _wrappers_mutex and nobody else ever does; _wrappers changes only in a
\* step that found the mutex free, so never during a drain, and only by an
\* append of the registering thread's Wrapper or by the removal of the
\* exiting thread's Wrapper, which leaves every other Wrapper in place; the
\* thread that takes the mutex holds no Wrapper mutex.
C30_RegistryGuarding ==
    /\ [](/\ \A t \in AllThreads :
                pc[t] \in {"m_drain", "m_wait"} => wrappers_mutex = Held(t)
          /\ wrappers_mutex # 0 =>
                \E t \in AllThreads :
                    pc[t] \in {"m_drain", "m_wait"} /\ wrappers_mutex = Held(t))
    /\ [][/\ wrappers' # wrappers =>
                /\ wrappers_mutex = 0 /\ wrappers_mutex' = 0
                /\ \A u \in AllThreads : pc[u] \notin {"m_drain", "m_wait"}
                /\ \E t \in AllThreads :
                      /\ \A w \in WrapperIds : wmutex[w] # Held(t)
                      /\ \/ /\ pc[t] = "aw_lock" /\ pc'[t] = "r_lock"
                            /\ wrappers' = Append(wrappers, w_loc[t])
                         \/ /\ pc[t] = "idle" /\ pc'[t] = "exited"
                            /\ tlsw[t] \in Registered
                            /\ Registered' = Registered \ {tlsw[t]}
                            /\ Len(wrappers') = Len(wrappers) - 1
          /\ \A t \in AllThreads :
                (wrappers_mutex = 0 /\ wrappers_mutex' = Held(t)) =>
                    /\ pc[t] = "m_wlock"
                    /\ \A w \in WrapperIds : wmutex[w] # Held(t)]_vars

\* the thread registered first has exited and its removal left the other
\* thread's Wrapper in _wrappers, which that thread now drains
C30_Witness ==
    /\ wrappers = <<2>>
    /\ \E t \in Threads : pc[t] = "exited"
    /\ \E u \in Threads : pc[u] = "m_wait" /\ tlsw[u] = 2

\* the Wrapper mutexes that thread t owns
HeldBy(t) == {w \in WrapperIds : wmutex[w] = Held(t)}

\* C27 (guard and lock): a Wrapper's mutex is held exactly when its thread
\* is past BeginRead of a Read or holds the guard that Read filled, or a
\* writer is inside WaitReadDone for that Wrapper, and the holder is that
\* thread; a writer holds at most one Wrapper mutex and none while it is
\* inside fn.  The destruction of a filled guard unlocks the mutex of the
\* guard's Wrapper and nothing else, leaving it free; the destruction of the
\* guard of a Read that returned -1 unlocks nothing.
C27_GuardLockCorrespondence ==
    /\ [](/\ \A w \in WrapperIds :
                wmutex[w] # 0 <=>
                    \/ \E t \in AllThreads :
                          pc[t] \in {"r_load", "reading"} /\ tlsw[t] = w
                    \/ \E t \in AllThreads :
                          pc[t] = "m_wait" /\ wrappers[drain_i[t]] = w
          /\ \A t \in AllThreads :
                /\ pc[t] \in {"r_load", "reading"} => HeldBy(t) = {tlsw[t]}
                /\ pc[t] = "reading" => ptr[t].w = tlsw[t]
                /\ pc[t] = "m_wait" => HeldBy(t) = {wrappers[drain_i[t]]}
                /\ pc[t] \in WriterLocked \ {"m_wait"} => HeldBy(t) = {}
                /\ pc[t] \in ReadFailPcs => (ptr[t] = NullPtr /\ HeldBy(t) = {}))
    /\ [][\A t \in AllThreads :
             /\ (pc[t] = "reading" /\ pc'[t] # "reading") =>
                   /\ wmutex[ptr[t].w] = Held(t)
                   /\ wmutex' = [wmutex EXCEPT ![ptr[t].w] = 0]
                   /\ ptr'[t] = NullPtr
             /\ (pc[t] \in ReadFailPcs /\ pc'[t] \notin ReadFailPcs) =>
                   wmutex' = wmutex]_vars

\* a writer is inside WaitReadDone for the Wrapper that a failed
\* pthread_setspecific left in _wrappers while the reader holds a guard on
\* the Wrapper of its next Read
C27_Witness ==
    \E u \in AllThreads :
        /\ pc[u] = "m_wait"
        /\ pc[Observer] = "reading"
        /\ wrappers[drain_i[u]] # ptr[Observer].w
        /\ wmutex[ptr[Observer].w] = Held(Observer)

\* s back to front
Reverse(s) == [k \in 1..Len(s) |-> s[Len(s) + 1 - k]]

\* the functions that have run, in order, without the body's statements
Ran == SelectSeq(scope.out, LAMBDA e : e # 0)

\* the statements of the body all come before the first deferred function
BodyFirst ==
    \A j \in 1..Len(scope.out) : \A k \in 1..Len(scope.out) :
        (scope.out[j] # 0 /\ scope.out[k] = 0) => k < j

\* C22 (defer runs last in, first out): in a scope that uses defer no
\* deferred function runs before the scope exits and none before a
\* statement of the body; while the locals are destroyed the functions that
\* have run are the ones registered last, latest first, and the others are
\* still held; when the scope is left every registered function has run
\* exactly once, in the reverse of the registration order.
C22_DeferLifo ==
    scope.kind = "lifo" =>
        /\ BodyFirst
        /\ scope.phase = "body" => (Ran = <<>> /\ scope.helpers = scope.reg)
        /\ scope.phase = "exit" =>
              /\ scope.helpers = SubSeq(scope.reg, 1, Len(scope.helpers))
              /\ Ran = Reverse(SubSeq(scope.reg, Len(scope.helpers) + 1,
                                      Len(scope.reg)))
        /\ scope.phase = "done" =>
              (Ran = Reverse(scope.reg) /\ scope.helpers = <<>>)

\* a scope with three defers and a statement between them has been left
C22_Witness ==
    /\ scope.kind = "lifo" /\ scope.phase = "done"
    /\ Len(scope.reg) = MaxDefer
    /\ scope.reg[1] > scope.reg[2]
    /\ Count(scope.out, 0) >= 1

\* C23 (defer_fifo runs first in, first out): in a scope that uses
\* defer_fifo no added function runs before the scope exits and none before
\* a statement of the body; while DEFER_FIFO is destroyed the functions that
\* have run are the ones added first, in that order; when it is destroyed
\* every added function has run exactly once, in the order of addition, and
\* m_funcs is empty.
C23_DeferFifo ==
    scope.kind = "fifo" =>
        /\ BodyFirst
        /\ scope.phase = "body" => (Ran = <<>> /\ scope.helpers = scope.reg)
        /\ scope.phase = "exit" =>
              /\ scope.helpers = scope.reg
              /\ scope.i \in 1..(Len(scope.reg) + 1)
              /\ Ran = SubSeq(scope.reg, 1, scope.i - 1)
        /\ scope.phase = "done" => (Ran = scope.reg /\ scope.helpers = <<>>)

\* DEFER_FIFO has been destroyed after three defer_fifo and a statement
C23_Witness ==
    /\ scope.kind = "fifo" /\ scope.phase = "done"
    /\ Len(scope.reg) = MaxDefer
    /\ scope.reg[1] > scope.reg[2]
    /\ Count(scope.out, 0) >= 1

\* C28 (a writer that reads inside fn): a guard obtained by fn keeps the
\* mutex of the writer thread's own registered Wrapper locked.  If it is
\* still alive when the drain runs, the drain never gets past that Wrapper:
\* the call reaches neither its second invocation of fn nor its return.  So
\* a guard alive in the second invocation, or at a return after a
\* publication, was obtained in the second invocation.  A guard that fn let
\* go before returning does not stop the call.
C28_ReentryDeadlock ==
    \A t \in AllThreads :
        (pc[t] \in WriterLocked /\ ptr[t] # NullPtr) =>
            /\ ptr[t].w = tlsw[t]
            /\ tlsw[t] \in Registered
            /\ wmutex[tlsw[t]] = Held(t)
            /\ Count(hist.drained, tlsw[t]) = 0
            /\ pc[t] = "m_wait" => wrappers[drain_i[t]] # tlsw[t]
            /\ (pc[t] = "m_drain" /\ drain_i[t] <= Len(wrappers)
                  /\ wrappers[drain_i[t]] = tlsw[t]) => ~ENABLED DrainNext(t)
            /\ pc[t] \in {"m_fn2a", "m_fn2b"} => hist.fread = 2
            /\ (pc[t] = "m_exit" /\ ret[t] # 0) => hist.fread = 2

\* the drain has passed another thread's Wrapper and stands at the writer's
\* own, whose mutex the guard kept from fn's first invocation holds
C28_Witness ==
    \E t \in AllThreads :
        /\ pc[t] = "m_drain" /\ ptr[t] # NullPtr /\ hist.fread = 1
        /\ drain_i[t] = 2 /\ Len(wrappers) = 2
        /\ wrappers[drain_i[t]] = tlsw[t]

\* C28 as stated: a Modify whose fn obtained a guard from Read on the same
\* container does not reach its return.
C28_AnyReadInFnDeadlocks ==
    \A t \in AllThreads : pc[t] = "m_exit" => hist.fread = 0

\* the places of a thread inside Read and inside Modify
InRead == {"aw_lock", "r_lock", "r_load"} \cup ReadFailPcs
InModify == {"m_lock"} \cup WriterLocked

\* every call returns: a thread inside Read comes to hold its guard or to be
\* back in its caller, a thread inside Modify comes to be back in its caller
EveryCallReturns ==
    \A t \in AllThreads :
        /\ (pc[t] \in InRead) ~> (pc[t] \in {"reading", "idle"})
        /\ (pc[t] \in InModify) ~> (pc[t] = "idle")

\* some thread is inside a call or holds a guard, and none of them can take
\* a step
Deadlocked ==
    /\ \E t \in AllThreads : pc[t] \notin {"idle", "exited"}
    /\ \A t \in AllThreads : ~ENABLED Inside(t)

\* C21 (progress): no reachable state is a deadlock; and if, beyond weak
\* fairness of every thread, no thread is passed over for ever at a mutex
\* that is free again and again, every Read and every Modify returns.
C21_Progress ==
    /\ []~Deadlocked
    /\ (\A u \in AllThreads : SF_vars(Acquire(u))) => EveryCallReturns

\* after an earlier Modify has returned, a thread waits for the writer
\* lock, whose holder waits in the drain for the guard of a third thread
C21_Witness ==
    \E a \in AllThreads : \E b \in AllThreads : \E c \in AllThreads :
        /\ lastDone = 1
        /\ pc[a] = "m_lock"
        /\ pc[b] = "m_drain" /\ drain_i[b] <= Len(wrappers)
        /\ pc[c] = "reading" /\ wrappers[drain_i[b]] = ptr[c].w

\* C21 as stated: under weak fairness of every thread every Modify and every
\* Read returns.
C21_WeakFairnessSuffices == EveryCallReturns
====
